---------------------------- MODULE Spec2Model ----------------------------
(***************************************************************************)
(* Model of the two file-organisation tools of the repository:             *)
(*   dedup.py    - merge several source directories into one output        *)
(*                 directory, one file per base name, first seen wins      *)
(*   sortfile.py - copy the files of one tree into date-stamped            *)
(*                 subdirectories derived from the modification time       *)
(* Each tool is one sequential pass; `pc' / `spc' is the position of the   *)
(* pass in main().  The file system and the order in which glob() yields   *)
(* its entries are the environment and are chosen nondeterministically.    *)
(***************************************************************************)
EXTENDS Integers, Sequences, FiniteSets, TLC

VARIABLES
    \* ---- dedup.py ----
    content,        \* the source trees: path of a regular file -> its bytes
    outdir,         \* args.out on disk: "noparent", "absent" or "exists"
    pc,             \* position in dedup.main
    srcIdx,         \* index into srcpaths of the outer loop
    flist,          \* entries the current glob generator has not yielded yet
    files,          \* insertion-ordered dict: filename -> metadata
    conflicts,      \* list of (kept metadata, rejected metadata)
    skip_count,
    conflict_count,
    out,            \* the output directory: file name -> bytes
    i,              \* copy-loop counter
    summary,        \* the numbers the summary prints, or NoSummary before
    error,          \* the exception that ended the run, or "none"
    hashReads,      \* history: path -> times it was read in full to be hashed
    firstSeen,      \* history: filename -> first regular file met with that name
    processed,      \* history: regular files the inner loop has handled
    run,            \* "first" or "second" invocation on the same inputs
    prevOut,        \* output directory the first invocation produced
    prevFirst,      \* firstSeen of the first invocation
    \* ---- sortfile.py ----
    tree,           \* the source tree: path -> [bytes, mtime]
    args,           \* [groupby, sep]
    spc,            \* position in sortfile.main
    sfiles,         \* entries the glob generator has not yielded yet
    dst,            \* the output tree: destination path -> bytes
    dstdir,         \* args.out on disk: "noparent", "absent" or "exists"
    file_count,
    lastCopied,     \* history: destination path -> source path copied there last
    serror          \* the exception that ended the run, or "none"

dvars == <<content, outdir, pc, srcIdx, flist, files, conflicts, skip_count,
           conflict_count, out, i, summary, error, hashReads, firstSeen,
           processed, run, prevOut, prevFirst>>
svars == <<tree, args, spc, sfiles, dst, dstdir, file_count, lastCopied, serror>>
vars  == <<dvars, svars>>

---------------------------------------------------------------------------
(* Bounds of the environment *)

\* at most this many regular files exist under the source directories
MaxFiles == 3

\* args.sources, in command-line order
srcpaths == <<"/a", "/b">>
\* subdirectories a source directory may hold
Dirs == {"d1", "d2"}
\* base names and file contents
Names == {"x.txt", "y.txt"}
Contents == {"A", "B"}

Range(s) == {s[k] : k \in DOMAIN s}

\* every place a regular file may be: <src>/<dir>/<name>
AllPaths == [src : Range(srcpaths), dir : Dirs, name : Names]

EmptyMap == [n \in {} |-> "nothing"]
MapPut(m, k, v) == [n \in DOMAIN m \cup {k} |-> IF n = k THEN v ELSE m[n]]

NoHash == "unset"
NoSummary == [printed |-> FALSE]

---------------------------------------------------------------------------
(* dedup.py: helpers *)

\* hashlib.sha256(bytes).digest(): a digest that differs for different bytes
Sha256(bytes) == <<"sha256", bytes>>

\* src.glob("**/*"): every regular file below src and every subdirectory
\* that holds one; the entry of a subdirectory is named like the directory
Glob(src) ==
    {p \in DOMAIN content : p.src = src}
    \cup {[src |-> src, dir |-> ".", name |-> d] :
             d \in {q.dir : q \in {p \in DOMAIN content : p.src = src}}}

\* path.is_file()
is_file(path) == path \in DOMAIN content

\* fname in files
Indexed(fname) == \E k \in 1..Len(files) : files[k].filename = fname

\* the position of files[fname] in insertion order
Slot(fname) == CHOOSE k \in 1..Len(files) : files[k].filename = fname

\* the metadata dict built for a path (lines 70-73), "md5" not set
Metadata(path) == [file |-> path, filename |-> path.name, md5 |-> NoHash]

\* history: the first regular file met under each name
Observe(path) ==
    IF path.name \in DOMAIN firstSeen THEN firstSeen
    ELSE MapPut(firstSeen, path.name, path)

\* history: one more full read of `path'
CountRead(reads, path) == [reads EXCEPT ![path] = @ + 1]

SortIdle == UNCHANGED svars

---------------------------------------------------------------------------
(* dedup.py: main *)

DedupInit ==
    /\ \E P \in SUBSET AllPaths :
          /\ Cardinality(P) <= MaxFiles
          /\ content \in [P -> Contents]
    /\ outdir \in {"noparent", "absent", "exists"}
    /\ pc = "source"
    /\ srcIdx = 1
    /\ flist = {}
    /\ files = <<>>
    /\ conflicts = <<>>
    /\ skip_count = 0
    /\ conflict_count = 0
    /\ out = EmptyMap
    /\ i = 0
    /\ summary = NoSummary
    /\ error = "none"
    /\ hashReads = [p \in DOMAIN content |-> 0]
    /\ firstSeen = EmptyMap
    /\ processed = 0
    /\ run = "first"
    /\ prevOut = EmptyMap
    /\ prevFirst = EmptyMap

\* for src in srcpaths: flist = src.glob(...)
StartSource ==
    /\ pc = "source"
    /\ srcIdx <= Len(srcpaths)
    /\ flist' = Glob(srcpaths[srcIdx])
    /\ pc' = "file"
    /\ UNCHANGED <<content, outdir, srcIdx, files, conflicts, skip_count,
                   conflict_count, out, i, summary, error, hashReads,
                   firstSeen, processed, run, prevOut, prevFirst>>
    /\ SortIdle

\* the generator is exhausted: on to the next source directory
EndSource ==
    /\ pc = "file"
    /\ flist = {}
    /\ srcIdx' = srcIdx + 1
    /\ pc' = "source"
    /\ UNCHANGED <<content, outdir, flist, files, conflicts, skip_count,
                   conflict_count, out, i, summary, error, hashReads,
                   firstSeen, processed, run, prevOut, prevFirst>>
    /\ SortIdle

\* if not path.is_file(): continue
SkipDirectory ==
    /\ pc = "file"
    /\ \E path \in flist :
          /\ ~is_file(path)
          /\ flist' = flist \ {path}
    /\ UNCHANGED <<content, outdir, pc, srcIdx, files, conflicts, skip_count,
                   conflict_count, out, i, summary, error, hashReads,
                   firstSeen, processed, run, prevOut, prevFirst>>
    /\ SortIdle

\* if fname not in files: files[fname] = metadata
IndexNew ==
    /\ pc = "file"
    /\ \E path \in flist :
          /\ is_file(path)
          /\ ~Indexed(path.name)
          /\ flist' = flist \ {path}
          /\ files' = Append(files, Metadata(path))
          /\ firstSeen' = Observe(path)
    /\ processed' = processed + 1
    /\ UNCHANGED <<content, outdir, pc, srcIdx, conflicts, skip_count,
                   conflict_count, out, i, summary, error, hashReads,
                   run, prevOut, prevFirst>>
    /\ SortIdle

\* the two hashes of lines 83-89: the new file's, then the indexed file's,
\* which is read again and stored into files[fname]["md5"] at every collision
Rehash(path) ==
    LET k == Slot(path.name) IN
    /\ files' = [files EXCEPT ![k].md5 = Sha256(content[files[k].file])]
    /\ hashReads' = CountRead(CountRead(hashReads, path), files[k].file)

\* SkipDuplicate with the mismatch counter stepped outside its branch
SkipDuplicate_Counted ==
    /\ pc = "file"
    /\ \E path \in flist :
          /\ is_file(path)
          /\ Indexed(path.name)
          /\ Sha256(content[files[Slot(path.name)].file]) = Sha256(content[path])
          /\ flist' = flist \ {path}
          /\ Rehash(path)
          /\ firstSeen' = Observe(path)
    /\ skip_count' = skip_count + 1
    /\ conflict_count' = conflict_count + 1
    /\ processed' = processed + 1
    /\ UNCHANGED <<content, outdir, pc, srcIdx, conflicts,
                   out, i, summary, error, run, prevOut, prevFirst>>
    /\ SortIdle

\* else branch, checksums match: the second copy is ignored
SkipDuplicate ==
    /\ pc = "file"
    /\ \E path \in flist :
          /\ is_file(path)
          /\ Indexed(path.name)
          /\ Sha256(content[files[Slot(path.name)].file]) = Sha256(content[path])
          /\ flist' = flist \ {path}
          /\ Rehash(path)
          /\ firstSeen' = Observe(path)
    /\ skip_count' = skip_count + 1
    /\ processed' = processed + 1
    /\ UNCHANGED <<content, outdir, pc, srcIdx, conflicts, conflict_count,
                   out, i, summary, error, run, prevOut, prevFirst>>
    /\ SortIdle

\* RecordConflict with the later file taking the place of the indexed one
RecordConflict_Replace ==
    /\ pc = "file"
    /\ \E path \in flist :
          /\ is_file(path)
          /\ Indexed(path.name)
          /\ Sha256(content[files[Slot(path.name)].file]) /= Sha256(content[path])
          /\ flist' = flist \ {path}
          /\ hashReads' = CountRead(CountRead(hashReads, path),
                                    files[Slot(path.name)].file)
          /\ files' = [files EXCEPT ![Slot(path.name)] =
                          [Metadata(path) EXCEPT !.md5 = Sha256(content[path])]]
          /\ conflicts' = Append(conflicts,
                 <<[files[Slot(path.name)] EXCEPT
                       !.md5 = Sha256(content[files[Slot(path.name)].file])],
                   [Metadata(path) EXCEPT !.md5 = Sha256(content[path])]>>)
          /\ firstSeen' = Observe(path)
    /\ conflict_count' = conflict_count + 1
    /\ skip_count' = skip_count + 1
    /\ processed' = processed + 1
    /\ UNCHANGED <<content, outdir, pc, srcIdx, out, i, summary, error,
                   run, prevOut, prevFirst>>
    /\ SortIdle

\* RecordConflict with the pair appended the wrong way round
RecordConflict_Swapped ==
    /\ pc = "file"
    /\ \E path \in flist :
          /\ is_file(path)
          /\ Indexed(path.name)
          /\ Sha256(content[files[Slot(path.name)].file]) /= Sha256(content[path])
          /\ flist' = flist \ {path}
          /\ Rehash(path)
          /\ conflicts' = Append(conflicts,
                 <<[Metadata(path) EXCEPT !.md5 = Sha256(content[path])],
                   files'[Slot(path.name)]>>)
          /\ firstSeen' = Observe(path)
    /\ conflict_count' = conflict_count + 1
    /\ skip_count' = skip_count + 1
    /\ processed' = processed + 1
    /\ UNCHANGED <<content, outdir, pc, srcIdx, out, i, summary, error,
                   run, prevOut, prevFirst>>
    /\ SortIdle

\* RecordConflict with the skip counter stepped in the other branch only
RecordConflict_NoSkip ==
    /\ pc = "file"
    /\ \E path \in flist :
          /\ is_file(path)
          /\ Indexed(path.name)
          /\ Sha256(content[files[Slot(path.name)].file]) /= Sha256(content[path])
          /\ flist' = flist \ {path}
          /\ Rehash(path)
          /\ conflicts' = Append(conflicts,
                 <<files'[Slot(path.name)],
                   [Metadata(path) EXCEPT !.md5 = Sha256(content[path])]>>)
          /\ firstSeen' = Observe(path)
    /\ conflict_count' = conflict_count + 1
    /\ processed' = processed + 1
    /\ UNCHANGED <<content, outdir, pc, srcIdx, skip_count, out, i, summary,
                   error, run, prevOut, prevFirst>>
    /\ SortIdle

\* else branch, checksums differ: track the pair, warn, keep the first
RecordConflict ==
    /\ pc = "file"
    /\ \E path \in flist :
          /\ is_file(path)
          /\ Indexed(path.name)
          /\ Sha256(content[files[Slot(path.name)].file]) /= Sha256(content[path])
          /\ flist' = flist \ {path}
          /\ Rehash(path)
          /\ conflicts' = Append(conflicts,
                 <<files'[Slot(path.name)],
                   [Metadata(path) EXCEPT !.md5 = Sha256(content[path])]>>)
          /\ firstSeen' = Observe(path)
    /\ conflict_count' = conflict_count + 1
    /\ skip_count' = skip_count + 1
    /\ processed' = processed + 1
    /\ UNCHANGED <<content, outdir, pc, srcIdx, out, i, summary, error,
                   run, prevOut, prevFirst>>
    /\ SortIdle

\* HashFail with the exception caught and the file skipped
HashFail_Continue ==
    /\ pc = "file"
    /\ \E path \in flist :
          /\ is_file(path)
          /\ Indexed(path.name)
          /\ flist' = flist \ {path}
          /\ firstSeen' = Observe(path)
    /\ error' = "hash"
    /\ skip_count' = skip_count + 1
    /\ processed' = processed + 1
    /\ UNCHANGED <<content, outdir, pc, srcIdx, files, conflicts,
                   conflict_count, out, i, summary, hashReads,
                   run, prevOut, prevFirst>>
    /\ SortIdle

\* open()/read() raises while hashing: nothing catches it, main() ends and
\* its generator with it.
\* Either the new file cannot be read (line 84) or, after it was read, the
\* indexed one cannot (line 88).
HashFail ==
    /\ pc = "file"
    /\ \E path \in flist :
          /\ is_file(path)
          /\ Indexed(path.name)
          /\ \/ hashReads' = hashReads
             \/ hashReads' = CountRead(hashReads, path)
    /\ flist' = {}
    /\ error' = "hash"
    /\ pc' = "aborted"
    /\ UNCHANGED <<content, outdir, srcIdx, files, conflicts, skip_count,
                   conflict_count, out, i, summary, firstSeen, processed,
                   run, prevOut, prevFirst>>
    /\ SortIdle

\* EndSources with the output directory made inside the loop over sources
EndSources_Early ==
    /\ pc = "source"
    /\ pc' = "mkdir"
    /\ UNCHANGED <<content, outdir, srcIdx, flist, files, conflicts,
                   skip_count, conflict_count, out, i, summary, error,
                   hashReads, firstSeen, processed, run, prevOut, prevFirst>>
    /\ SortIdle

\* all sources done: the generator loop is left
EndSources ==
    /\ pc = "source"
    /\ srcIdx > Len(srcpaths)
    /\ pc' = "mkdir"
    /\ UNCHANGED <<content, outdir, srcIdx, flist, files, conflicts,
                   skip_count, conflict_count, out, i, summary, error,
                   hashReads, firstSeen, processed, run, prevOut, prevFirst>>
    /\ SortIdle

\* out.mkdir(parents=False, exist_ok=True)
Mkdir ==
    /\ pc = "mkdir"
    /\ outdir \in {"absent", "exists"}
    /\ outdir' = "exists"
    /\ pc' = "copy"
    /\ UNCHANGED <<content, srcIdx, flist, files, conflicts, skip_count,
                   conflict_count, out, i, summary, error, hashReads,
                   firstSeen, processed, run, prevOut, prevFirst>>
    /\ SortIdle

\* out.mkdir raises FileNotFoundError: the parent is missing
MkdirFail ==
    /\ pc = "mkdir"
    /\ outdir = "noparent"
    /\ error' = "mkdir"
    /\ pc' = "aborted"
    /\ UNCHANGED <<content, outdir, srcIdx, flist, files, conflicts,
                   skip_count, conflict_count, out, i, summary, hashReads,
                   firstSeen, processed, run, prevOut, prevFirst>>
    /\ SortIdle

\* one round of the copy loop: shutil.copy2(srcfile, out / srcfile.name)
CopyFile ==
    /\ pc = "copy"
    /\ i < Len(files)
    /\ i' = i + 1
    /\ out' = MapPut(out, files[i + 1].file.name, content[files[i + 1].file])
    /\ UNCHANGED <<content, outdir, pc, srcIdx, flist, files, conflicts,
                   skip_count, conflict_count, summary, error, hashReads,
                   firstSeen, processed, run, prevOut, prevFirst>>
    /\ SortIdle

\* shutil.copy2 raises: main() ends with what was copied so far
CopyFail ==
    /\ pc = "copy"
    /\ i < Len(files)
    /\ i' = i + 1
    /\ error' = "copy"
    /\ pc' = "aborted"
    /\ UNCHANGED <<content, outdir, srcIdx, flist, files, conflicts,
                   skip_count, conflict_count, out, summary, hashReads,
                   firstSeen, processed, run, prevOut, prevFirst>>
    /\ SortIdle

\* the summary printed after the copy loop
Summarize ==
    /\ pc = "copy"
    /\ i = Len(files)
    /\ summary' = [printed |-> TRUE,
                   unique |-> Len(files), directories |-> Len(srcpaths),
                   skipped |-> skip_count, mismatches |-> conflict_count]
    /\ pc' = "done"
    /\ UNCHANGED <<content, outdir, srcIdx, flist, files, conflicts,
                   skip_count, conflict_count, out, i, error, hashReads,
                   firstSeen, processed, run, prevOut, prevFirst>>
    /\ SortIdle

\* main(args) is invoked a second time with the same arguments, the source
\* trees untouched and the output directory cleared
Rerun ==
    /\ pc = "done"
    /\ run = "first"
    /\ run' = "second"
    /\ prevOut' = out
    /\ prevFirst' = firstSeen
    /\ pc' = "source"
    /\ srcIdx' = 1
    /\ flist' = {}
    /\ files' = <<>>
    /\ conflicts' = <<>>
    /\ skip_count' = 0
    /\ conflict_count' = 0
    /\ out' = EmptyMap
    /\ i' = 0
    /\ summary' = NoSummary
    /\ hashReads' = [p \in DOMAIN content |-> 0]
    /\ firstSeen' = EmptyMap
    /\ processed' = 0
    /\ UNCHANGED <<content, outdir, error>>
    /\ SortIdle

SortOff ==
    /\ tree = EmptyMap
    /\ args = [groupby |-> "y", sep |-> <<>>]
    /\ spc = "off"
    /\ sfiles = {}
    /\ dst = EmptyMap
    /\ dstdir = "absent"
    /\ file_count = 0
    /\ lastCopied = EmptyMap
    /\ serror = "none"

Init == DedupInit /\ SortOff

Next ==
    \/ StartSource
    \/ EndSource
    \/ SkipDirectory
    \/ IndexNew
    \/ SkipDuplicate
    \/ RecordConflict
    \/ HashFail
    \/ EndSources
    \/ Mkdir
    \/ MkdirFail
    \/ CopyFile
    \/ CopyFail
    \/ Summarize
    \/ Rerun

Spec == Init /\ [][Next]_vars

---------------------------------------------------------------------------
(* sortfile.py: helpers *)

\* every place a regular file may be below args.source: <dir>/<name>
SortPaths == [dir : Dirs, name : Names]

\* modification times (seconds since the epoch, host clock on UTC):
\* 2021-01-02 23:59:59, 2021-01-28 00:00:00, 2023-11-04 12:00:00
Mtimes == {1609631999, 1611792000, 1699099200}

\* values of --sep, as characters
Seps == {<<"-">>, <<".">>, <<"%">>}
Groupings == {"y", "ym", "ymd"}

\* args.out as path components
OutParts == <<"out">>

DedupIdle == UNCHANGED dvars

Digit(d) == <<"0", "1", "2", "3", "4", "5", "6", "7", "8", "9">>[d + 1]
Pad2(n) == <<Digit((n \div 10) % 10), Digit(n % 10)>>
Pad4(n) == <<Digit((n \div 1000) % 10), Digit((n \div 100) % 10)>> \o Pad2(n)

\* datetime.fromtimestamp(ts): the calendar date of a time stamp
\* (days since 1970-01-01 to year, month, day of the Gregorian calendar)
FromTimestamp(ts) ==
    LET z   == (ts \div 86400) + 719468
        era == z \div 146097
        doe == z - era * 146097
        yoe == (doe - doe \div 1460 + doe \div 36524 - doe \div 146096) \div 365
        doy == doe - (365 * yoe + yoe \div 4 - yoe \div 100)
        mp  == (5 * doy + 2) \div 153
        m   == IF mp < 10 THEN mp + 3 ELSE mp - 9
    IN  [year  |-> yoe + era * 400 + (IF m <= 2 THEN 1 ELSE 0),
         month |-> m,
         day   |-> doy - (153 * mp + 2) \div 5 + 1]

\* modified.strftime(fmt): "%Y", "%m", "%d" are replaced by the zero-padded
\* field, "%%" by one "%", every other character is copied
RECURSIVE Strftime(_, _)
Strftime(fmt, tm) ==
    IF fmt = <<>> THEN <<>>
    ELSE IF fmt[1] = "%" /\ Len(fmt) >= 2
    THEN (CASE fmt[2] = "Y" -> Pad4(tm.year)
            [] fmt[2] = "m" -> Pad2(tm.month)
            [] fmt[2] = "d" -> Pad2(tm.day)
            [] fmt[2] = "%" -> <<"%">>
            [] OTHER        -> <<"%", fmt[2]>>)
         \o Strftime(SubSeq(fmt, 3, Len(fmt)), tm)
    ELSE <<fmt[1]>> \o Strftime(Tail(fmt), tm)

\* the format string of lines 26-31
Datestr(groupby, sep) ==
    CASE groupby = "y"   -> <<"%", "Y", "/">>
      [] groupby = "ym"  -> <<"%", "Y">> \o sep \o <<"%", "m", "/">>
      [] groupby = "ymd" -> <<"%", "Y">> \o sep \o <<"%", "m">> \o sep
                               \o <<"%", "d", "/">>

\* characters to a string
RECURSIVE Str(_)
Str(chars) == IF chars = <<>> THEN "" ELSE chars[1] \o Str(Tail(chars))

\* the components of a relative path given as text: empty components
\* (doubled or trailing "/") are dropped, as pathlib does when joining
RECURSIVE Parts(_, _)
Parts(chars, cur) ==
    IF chars = <<>> THEN (IF cur = <<>> THEN <<>> ELSE <<Str(cur)>>)
    ELSE IF chars[1] = "/"
    THEN (IF cur = <<>> THEN <<>> ELSE <<Str(cur)>>) \o Parts(Tail(chars), <<>>)
    ELSE Parts(Tail(chars), Append(cur, chars[1]))

\* lines 57-59: dstfile = dst / slug / srcfile.name
Dstfile(srcfile) ==
    LET modified == FromTimestamp(tree[srcfile].mtime)
        slug     == Strftime(Datestr(args.groupby, args.sep), modified)
    IN  OutParts \o Parts(slug, <<>>) \o <<srcfile.name>>

\* src.glob("**/*"): the regular files and the subdirectories holding them
SortGlob ==
    DOMAIN tree
    \cup {[dir |-> ".", name |-> d] : d \in {q.dir : q \in DOMAIN tree}}

---------------------------------------------------------------------------
(* sortfile.py: main *)

DedupOff ==
    /\ content = EmptyMap
    /\ outdir = "absent"
    /\ pc = "off"
    /\ srcIdx = 1
    /\ flist = {}
    /\ files = <<>>
    /\ conflicts = <<>>
    /\ skip_count = 0
    /\ conflict_count = 0
    /\ out = EmptyMap
    /\ i = 0
    /\ summary = NoSummary
    /\ error = "none"
    /\ hashReads = EmptyMap
    /\ firstSeen = EmptyMap
    /\ processed = 0
    /\ run = "first"
    /\ prevOut = EmptyMap
    /\ prevFirst = EmptyMap

SortInit ==
    /\ \E P \in SUBSET SortPaths :
          /\ Cardinality(P) <= MaxFiles
          /\ tree \in [P -> [bytes : Contents, mtime : Mtimes]]
    /\ args \in [groupby : Groupings, sep : Seps]
    /\ dstdir \in {"noparent", "absent"}
    /\ spc = "mkdir"
    /\ sfiles = {}
    /\ dst = EmptyMap
    /\ file_count = 0
    /\ lastCopied = EmptyMap
    /\ serror = "none"

\* dst.mkdir(exist_ok=True, parents=False); files = src.glob("**/*")
SortMkdir ==
    /\ spc = "mkdir"
    /\ dstdir \in {"absent", "exists"}
    /\ dstdir' = "exists"
    /\ sfiles' = SortGlob
    /\ spc' = "loop"
    /\ UNCHANGED <<tree, args, dst, file_count, lastCopied, serror>>
    /\ DedupIdle

\* dst.mkdir raises FileNotFoundError: the parent is missing
SortMkdirFail ==
    /\ spc = "mkdir"
    /\ dstdir = "noparent"
    /\ serror' = "mkdir"
    /\ spc' = "aborted"
    /\ UNCHANGED <<tree, args, sfiles, dst, dstdir, file_count, lastCopied>>
    /\ DedupIdle

\* if not srcfile.is_file(): continue
SortSkipDirectory ==
    /\ spc = "loop"
    /\ \E srcfile \in sfiles :
          /\ srcfile \notin DOMAIN tree
          /\ sfiles' = sfiles \ {srcfile}
    /\ UNCHANGED <<tree, args, spc, dst, dstdir, file_count, lastCopied, serror>>
    /\ DedupIdle

\* SortCopy that leaves a file already at dstfile alone
SortCopy_KeepFirst ==
    /\ spc = "loop"
    /\ \E srcfile \in sfiles :
          /\ srcfile \in DOMAIN tree
          /\ sfiles' = sfiles \ {srcfile}
          /\ dst' = IF Dstfile(srcfile) \in DOMAIN dst THEN dst
                    ELSE MapPut(dst, Dstfile(srcfile), tree[srcfile].bytes)
          /\ lastCopied' = MapPut(lastCopied, Dstfile(srcfile), srcfile)
    /\ file_count' = file_count + 1
    /\ UNCHANGED <<tree, args, spc, dstdir, serror>>
    /\ DedupIdle

\* lines 57-64: the bucket directory is made, the file copied over whatever
\* is at dstfile, the counter stepped
SortCopy ==
    /\ spc = "loop"
    /\ \E srcfile \in sfiles :
          /\ srcfile \in DOMAIN tree
          /\ sfiles' = sfiles \ {srcfile}
          /\ dst' = MapPut(dst, Dstfile(srcfile), tree[srcfile].bytes)
          /\ lastCopied' = MapPut(lastCopied, Dstfile(srcfile), srcfile)
    /\ file_count' = file_count + 1
    /\ UNCHANGED <<tree, args, spc, dstdir, serror>>
    /\ DedupIdle

\* stat(), mkdir() or copy2() raises: main() ends, its generator with it
SortCopyFail ==
    /\ spc = "loop"
    /\ \E srcfile \in sfiles : srcfile \in DOMAIN tree
    /\ sfiles' = {}
    /\ serror' = "copy"
    /\ spc' = "aborted"
    /\ UNCHANGED <<tree, args, dst, dstdir, file_count, lastCopied>>
    /\ DedupIdle

\* the generator is exhausted: the summary is printed
SortSummarize ==
    /\ spc = "loop"
    /\ sfiles = {}
    /\ spc' = "done"
    /\ UNCHANGED <<tree, args, sfiles, dst, dstdir, file_count, lastCopied, serror>>
    /\ DedupIdle

SortNext ==
    \/ SortMkdir
    \/ SortMkdirFail
    \/ SortSkipDirectory
    \/ SortCopy
    \/ SortCopyFail
    \/ SortSummarize

SortStart == SortInit /\ DedupOff

SortSpec == SortStart /\ [][SortNext]_vars

---------------------------------------------------------------------------
(* Properties of dedup.py, checked under Spec *)

\* the files of the source trees that carry a base name
Named(n) == {p \in DOMAIN content : p.name = n}

\* the position in srcpaths of the first source directory holding name n
FirstSource(n) ==
    CHOOSE k \in 1..Len(srcpaths) :
        /\ \E p \in Named(n) : p.src = srcpaths[k]
        /\ \A j \in 1..(k - 1) : \A p \in Named(n) : p.src /= srcpaths[j]

\* the path the index holds for every name is the first file met under it,
\* and that file lies in the first source directory holding the name
IndexHoldsFirstSeen ==
    \A k \in 1..Len(files) :
        /\ files[k].filename \in DOMAIN firstSeen
        /\ files[k].file = firstSeen[files[k].filename]
        /\ files[k].file.src = srcpaths[FirstSource(files[k].filename)]

\* C1: after a successful run into a fresh output directory, the output
\* holds exactly the base names met in the sources, each with the bytes of
\* the first file met under that name (sources in list order); the index
\* never swaps the first file for a later one.
C1_FirstSeenWins ==
    /\ IndexHoldsFirstSeen
    /\ pc = "done" =>
         /\ DOMAIN out = {p.name : p \in DOMAIN content}
         /\ \A n \in DOMAIN out : out[n] = content[firstSeen[n]]

\* a run has ended well over a name that two sources hold with different bytes
C1_Witness ==
    /\ pc = "done"
    /\ \E p, q \in DOMAIN content :
          p.name = q.name /\ p.src /= q.src /\ content[p] /= content[q]

\* a step of the inner loop that handles `path', met under an indexed name,
\* with no read failing
Collides(path) ==
    /\ pc = "file"
    /\ path \in flist
    /\ is_file(path)
    /\ Indexed(path.name)
    /\ flist' = flist \ {path}
    /\ error' /= "hash"

\* C2: a file met under an indexed name whose hash equals the indexed
\* file's steps skip_count by one, leaves conflict_count and the conflict
\* list alone, and the index keeps the first file met.
C2_DuplicateSkipped ==
    [][\A path \in flist :
          (/\ Collides(path)
           /\ Sha256(content[path]) = Sha256(content[files[Slot(path.name)].file]))
          => /\ skip_count' = skip_count + 1
             /\ conflict_count' = conflict_count
             /\ conflicts' = conflicts
             /\ Len(files') = Len(files)
             /\ \A k \in 1..Len(files) :
                   /\ files'[k].file = files[k].file
                   /\ files'[k].filename = files[k].filename
             /\ files'[Slot(path.name)].file = firstSeen[path.name]]_vars

\* a run has ended in which every collision was a true duplicate
C2_Witness ==
    /\ pc = "done"
    /\ skip_count >= 1
    /\ conflict_count = 0
    /\ conflicts = <<>>

\* C3: a file met under an indexed name whose hash differs from the indexed
\* file's steps skip_count and conflict_count by one each, appends one
\* pair naming the kept (first met) path and the rejected path, leaves the
\* first file in the index, and the loop goes on.
C3_ConflictRecorded ==
    [][\A path \in flist :
          (/\ Collides(path)
           /\ Sha256(content[path]) /= Sha256(content[files[Slot(path.name)].file]))
          => /\ skip_count' = skip_count + 1
             /\ conflict_count' = conflict_count + 1
             /\ Len(conflicts') = Len(conflicts) + 1
             /\ SubSeq(conflicts', 1, Len(conflicts)) = conflicts
             /\ conflicts'[Len(conflicts')][1].file = firstSeen[path.name]
             /\ conflicts'[Len(conflicts')][2].file = path
             /\ Len(files') = Len(files)
             /\ \A k \in 1..Len(files) :
                   /\ files'[k].file = files[k].file
                   /\ files'[k].filename = files[k].filename
             /\ files'[Slot(path.name)].file = firstSeen[path.name]
             /\ pc' = "file"
             /\ error' = "none"]_vars

\* a run has gone on to its end after recording a conflict
C3_Witness ==
    /\ pc = "done"
    /\ conflict_count >= 1
    /\ Len(conflicts) >= 1
    /\ \E n \in DOMAIN out : out[n] = content[conflicts[1][1].file]
                             /\ out[n] /= content[conflicts[1][2].file]

\* C4: the file an index entry holds is read and hashed at most once in a
\* run, however many later files collide with its name.
C4_HashedOnce ==
    \A k \in 1..Len(files) : hashReads[files[k].file] <= 1

\* C5 as stated: the output directory is made before any source directory
\* is enumerated, so a failure to make it ends the run before any source
\* file is met or read.
C5_MkdirFirst ==
    /\ (pc = "file" \/ srcIdx > 1) => outdir /= "absent"
    /\ error = "mkdir" =>
         /\ processed = 0
         /\ \A p \in DOMAIN hashReads : hashReads[p] = 0

\* the state of the copy phase before its first copy
NothingCopied == out = EmptyMap /\ i = 0

\* C5 amended: the output directory is made (parents are not) once every
\* source directory has been enumerated and every collision hashed, right
\* before the copy loop; nothing is copied before it exists, and a failure
\* to make it ends the run with nothing copied and no summary.
C5_MkdirBeforeCopy ==
    /\ [](/\ ~NothingCopied => outdir = "exists"
          /\ error = "mkdir" =>
               /\ pc = "aborted"
               /\ outdir = "noparent"
               /\ srcIdx > Len(srcpaths)
               /\ NothingCopied
               /\ summary = NoSummary)
    /\ [][outdir' /= outdir =>
             /\ outdir = "absent"
             /\ pc = "mkdir"
             /\ srcIdx > Len(srcpaths)
             /\ NothingCopied
             /\ pc' = "copy"]_vars

\* making the output directory has failed after source files were read
C5_Witness ==
    /\ error = "mkdir"
    /\ processed >= 2
    /\ \E p \in DOMAIN hashReads : hashReads[p] >= 1

\* C6: a read that fails during hashing ends the run at once: no later
\* file is handled, nothing has been or is copied, no summary is printed.
C6_FailFast ==
    /\ [](error = "hash" =>
            /\ pc = "aborted"
            /\ NothingCopied
            /\ summary = NoSummary)
    /\ [][error = "hash" => UNCHANGED vars]_vars

\* a read has failed while files were still to be handled
C6_Witness ==
    /\ error = "hash"
    /\ pc = "aborted"
    /\ processed + 1 < Cardinality(DOMAIN content)

\* every file of name n in the first source holding n has the same bytes
UniformFirstSource(n) ==
    \A p, q \in Named(n) :
        (p.src = srcpaths[FirstSource(n)] /\ q.src = srcpaths[FirstSource(n)])
        => content[p] = content[q]

\* C7 as stated: two runs on the same sources give the same output
\* directory whatever order the listing yields the files in.
C7_SameOutput ==
    (run = "second" /\ pc = "done") => out = prevOut

\* C7 amended: two runs on the same sources give the same set of file
\* names; they give the same bytes under every name when both runs meet
\* the same file first under each name (as they do when the listing order
\* is the same), and the same bytes under a name whenever the files of
\* that name in the first source holding it all have the same bytes.
C7_SameOutputGivenOrder ==
    (run = "second" /\ pc = "done") =>
        /\ DOMAIN out = DOMAIN prevOut
        /\ firstSeen = prevFirst => out = prevOut
        /\ \A n \in DOMAIN out : UniformFirstSource(n) => out[n] = prevOut[n]

\* a second run has met the files in another order and still produced the
\* same output directory
C7_Witness ==
    /\ run = "second"
    /\ pc = "done"
    /\ firstSeen /= prevFirst
    /\ out = prevOut
    /\ \E n \in DOMAIN out : Cardinality(Named(n)) >= 2

\* C10: at every point of the run, indexed names plus skip_count is the
\* number of regular files handled, conflict_count is the length of the
\* conflict list and at most skip_count; the summary's unique count plus
\* its skipped count is the number of regular files in the sources.
C10_Counters ==
    /\ Len(files) + skip_count = processed
    /\ processed <= Cardinality(DOMAIN content)
    /\ conflict_count = Len(conflicts)
    /\ conflict_count <= skip_count
    /\ summary.printed =>
         /\ summary.unique + summary.skipped = Cardinality(DOMAIN content)
         /\ summary.mismatches = Len(conflicts)

\* a summary has been printed after a duplicate and a conflict
C10_Witness ==
    /\ summary.printed
    /\ skip_count = 2
    /\ conflict_count = 1

---------------------------------------------------------------------------
(* Properties of sortfile.py, checked under SortSpec *)

\* the subpath C8 describes: YYYY, YYYY{sep}MM or YYYY{sep}MM{sep}DD
Subpath(groupby, sep, tm) ==
    CASE groupby = "y"   -> Pad4(tm.year)
      [] groupby = "ym"  -> Pad4(tm.year) \o sep \o Pad2(tm.month)
      [] groupby = "ymd" -> Pad4(tm.year) \o sep \o Pad2(tm.month) \o sep
                               \o Pad2(tm.day)

\* C8: every file copied lies at out/<subpath>/<base name>, the subpath
\* built from the file's modification date, the grouping and the separator.
C8_DatePath ==
    \A d \in DOMAIN lastCopied :
        d = OutParts
            \o Parts(Subpath(args.groupby, args.sep,
                             FromTimestamp(tree[lastCopied[d]].mtime)), <<>>)
            \o <<lastCopied[d].name>>

\* C9: two files with the same date subpath and the same base name do not
\* fail the run and are not detected: the later copy replaces the earlier,
\* the destination holds the bytes of the file copied last, and the
\* reported total counts every copy.
C9_LastCopyWins ==
    /\ DOMAIN dst = DOMAIN lastCopied
    /\ \A d \in DOMAIN dst : dst[d] = tree[lastCopied[d]].bytes
    /\ file_count = Cardinality({f \in DOMAIN tree : f \notin sfiles})
         \/ spc \in {"mkdir", "aborted"}
    /\ spc = "done" => (file_count = Cardinality(DOMAIN tree) /\ serror = "none")

\* a run has ended after two files of different bytes went to one place
C9_Witness ==
    /\ spc = "done"
    /\ file_count > Cardinality(DOMAIN dst)
    /\ \E f, g \in DOMAIN tree :
          /\ f /= g
          /\ Dstfile(f) = Dstfile(g)
          /\ tree[f].bytes /= tree[g].bytes

=============================================================================
